---- MODULE Spec2Model ----
(***************************************************************************)
(* Scheduler statistics from /proc/[pid]/schedstat (src/pid/schedstat.rs). *)
(*                                                                         *)
(* Bytes are ASCII codes, byte slices are sequences of them.  A usize is   *)
(* 64 bits wide; since it does not fit the checker's integers it is kept   *)
(* as four base-10^5 limbs, most significant first, and the decimal        *)
(* conversion is carried out in that arithmetic.                           *)
(***************************************************************************)
EXTENDS Integers, Sequences, FiniteSets, TLC

VARIABLES
    nom_crlf,   \* whether the nom build's line_ending also accepts "\r\n"
    threads,    \* procfs: process id -> the thread ids of that process
    pc,         \* position of the caller: "idle", "opened", "read", "parsed", "done"
    call,       \* the accessor in flight and its arguments
    path,       \* the path the accessor handed to File::open
    handles,    \* the File values that are open (each the path it was opened on)
    served,     \* what procfs did on the read: the content it had, whether it failed
    buf,        \* schedstat_file's stack buffer
    nread,      \* length of the slice read_to_end returned
    parsed,     \* the IResult of parse_schedstat on that slice
    result,     \* the io::Result the accessor returned
    log,        \* the steps the call in flight has executed
    input,      \* byte slice handed to parse_schedstat on its own
    parts,      \* how that slice was put together
    output      \* the IResult of parse_schedstat on input

vars == <<nom_crlf, threads, pc, call, path, handles, served, buf, nread, parsed,
          result, log, input, parts, output>>

(***************************************************************************)
(* Bytes                                                                   *)
(***************************************************************************)
SP == 32
TAB == 9
LF == 10
CR == 13
ZERO == 48
MINUS == 45
LETTER == 120

is_digit(b) == b >= ZERO /\ b <= ZERO + 9
is_space(b) == b = SP \/ b = TAB

Tail_from(s, i) == SubSeq(s, i, Len(s))

(***************************************************************************)
(* usize: four limbs, most significant first.  The top limb is allowed to  *)
(* exceed the base while an overflow is being detected.                    *)
(***************************************************************************)
LimbBase == 10 ^ 5

UsizeZero == <<0, 0, 0, 0>>
UsizeMax == <<18446, 74407, 37095, 51615>>

\* acc * 10 + d, carried through the limbs
MulAdd10(acc, d) ==
    LET l4 == acc[4] * 10 + d
        l3 == acc[3] * 10 + l4 \div LimbBase
        l2 == acc[2] * 10 + l3 \div LimbBase
        l1 == acc[1] * 10 + l2 \div LimbBase
    IN  <<l1, l2 % LimbBase, l3 % LimbBase, l4 % LimbBase>>

\* a > b on limb tuples
UsizeGt(a, b) ==
    \E i \in 1..4 : a[i] > b[i] /\ \A j \in 1..(i - 1) : a[j] = b[j]

(***************************************************************************)
(* Schedstat and the result types                                          *)
(***************************************************************************)
Schedstat(a, b, c) == [sum_exec_runtime |-> a, run_delay |-> b, pcount |-> c]

\* #[derive(Default)]
SchedstatDefault == Schedstat(UsizeZero, UsizeZero, UsizeZero)

\* nom::IResult
Done(rest, val) == [tag |-> "Done", rest |-> rest, val |-> val]
Error == [tag |-> "Error"]

\* std::io::Result
Ok(val) == [ok |-> TRUE, val |-> val]
Err(kind) == [ok |-> FALSE, kind |-> kind]

None == [tag |-> "None"]

(***************************************************************************)
(* parsers::parse_usize: map_res!(map_res!(digit, from_utf8), from_str)    *)
(***************************************************************************)
\* length of the longest prefix of i made of ASCII digits
DigitRun(i) ==
    CHOOSE n \in 0..Len(i) :
        /\ \A k \in 1..n : is_digit(i[k])
        /\ (n = Len(i) \/ ~is_digit(i[n + 1]))

\* usize::from_str on a run of digits: checked multiply-and-add per digit
RECURSIVE from_str_acc(_, _, _)
from_str_acc(s, k, acc) ==
    IF k > Len(s) THEN Ok(acc)
    ELSE LET next == MulAdd10(acc, s[k] - ZERO)
         IN  IF UsizeGt(next, UsizeMax) THEN Err("PosOverflow")
             ELSE from_str_acc(s, k + 1, next)

from_str(s) == IF Len(s) = 0 THEN Err("Empty") ELSE from_str_acc(s, 1, UsizeZero)

\* a conversion that saturates at the maximum instead of failing
parse_usize_saturating(i) ==
    LET n == DigitRun(i)
        v == from_str(SubSeq(i, 1, n))
    IN  IF n = 0 THEN Error
        ELSE Done(Tail_from(i, n + 1), IF v.ok THEN v.val ELSE UsizeMax)

parse_usize(i) ==
    LET n == DigitRun(i)
        v == from_str(SubSeq(i, 1, n))
    IN  IF n = 0 THEN Error
        ELSE IF v.ok THEN Done(Tail_from(i, n + 1), v.val)
        ELSE Error

(***************************************************************************)
(* nom::space and nom::line_ending                                         *)
(***************************************************************************)
\* length of the longest prefix of i made of spaces and tabs
SpaceRun(i) ==
    CHOOSE n \in 0..Len(i) :
        /\ \A k \in 1..n : is_space(i[k])
        /\ (n = Len(i) \/ ~is_space(i[n + 1]))

\* exactly one ASCII space
space_single(i) ==
    IF Len(i) >= 1 /\ i[1] = SP THEN Done(Tail_from(i, 2), <<SP>>) ELSE Error

\* one or more spaces or tabs
space(i) ==
    LET n == SpaceRun(i)
    IN  IF n = 0 THEN Error
        ELSE Done(Tail_from(i, n + 1), SubSeq(i, 1, n))

\* a line ending that may be absent
line_ending_optional(i) ==
    IF Len(i) >= 1 /\ i[1] = LF THEN Done(Tail_from(i, 2), <<LF>>)
    ELSE Done(i, <<>>)

\* "\n", and in the builds that recognise it "\r\n"
line_ending(i) ==
    IF Len(i) >= 1 /\ i[1] = LF THEN Done(Tail_from(i, 2), <<LF>>)
    ELSE IF nom_crlf /\ Len(i) >= 2 /\ i[1] = CR /\ i[2] = LF
         THEN Done(Tail_from(i, 3), <<CR, LF>>)
    ELSE Error

(***************************************************************************)
(* parse_schedstat: chain!(parse_usize ~ space ~ parse_usize ~ space ~     *)
(*                         parse_usize ~ line_ending ~ || Schedstat{..})   *)
(* Each parser runs on what the one before it left; the first that does    *)
(* not return Done ends the chain with its error.                          *)
(***************************************************************************)
\* the chain with the second and third value bound to the wrong fields
parse_schedstat_swapped(i) ==
    LET r1 == parse_usize(i) IN
    IF r1.tag # "Done" THEN Error ELSE
    LET r2 == space(r1.rest) IN
    IF r2.tag # "Done" THEN Error ELSE
    LET r3 == parse_usize(r2.rest) IN
    IF r3.tag # "Done" THEN Error ELSE
    LET r4 == space(r3.rest) IN
    IF r4.tag # "Done" THEN Error ELSE
    LET r5 == parse_usize(r4.rest) IN
    IF r5.tag # "Done" THEN Error ELSE
    LET r6 == line_ending(r5.rest) IN
    IF r6.tag # "Done" THEN Error ELSE
    Done(r6.rest, Schedstat(r1.val, r5.val, r3.val))

\* the chain followed by eof!(): nothing may follow the line
parse_schedstat_eof(i) ==
    LET r1 == parse_usize(i) IN
    IF r1.tag # "Done" THEN Error ELSE
    LET r2 == space(r1.rest) IN
    IF r2.tag # "Done" THEN Error ELSE
    LET r3 == parse_usize(r2.rest) IN
    IF r3.tag # "Done" THEN Error ELSE
    LET r4 == space(r3.rest) IN
    IF r4.tag # "Done" THEN Error ELSE
    LET r5 == parse_usize(r4.rest) IN
    IF r5.tag # "Done" THEN Error ELSE
    LET r6 == line_ending(r5.rest) IN
    IF r6.tag # "Done" THEN Error ELSE
    IF r6.rest # <<>> THEN Error ELSE
    Done(r6.rest, Schedstat(r1.val, r3.val, r5.val))

parse_schedstat(i) ==
    LET r1 == parse_usize(i) IN
    IF r1.tag # "Done" THEN Error ELSE
    LET r2 == space(r1.rest) IN
    IF r2.tag # "Done" THEN Error ELSE
    LET r3 == parse_usize(r2.rest) IN
    IF r3.tag # "Done" THEN Error ELSE
    LET r4 == space(r3.rest) IN
    IF r4.tag # "Done" THEN Error ELSE
    LET r5 == parse_usize(r4.rest) IN
    IF r5.tag # "Done" THEN Error ELSE
    LET r6 == line_ending(r5.rest) IN
    IF r6.tag # "Done" THEN Error ELSE
    Done(r6.rest, Schedstat(r1.val, r3.val, r5.val))

\* parsers::map_result: IResult -> io::Result, the rest of the input dropped
map_result(r) ==
    IF r.tag = "Done" THEN Ok(r.val) ELSE Err("InvalidInput")

(***************************************************************************)
(* procfs                                                                  *)
(***************************************************************************)
MaxPid == 2

Pids == 1..MaxPid

\* format!("/proc/{}/schedstat", pid), "/proc/self/schedstat",
\* format!("/proc/{}/task/{}/schedstat", process_id, thread_id)
path_schedstat(pid) == <<"proc", ToString(pid), "schedstat">>
path_self == <<"proc", "self", "schedstat">>
\* the two ids in the wrong order
path_task_swapped(process_id, thread_id) ==
    <<"proc", ToString(thread_id), "task", ToString(process_id), "schedstat">>

path_task(process_id, thread_id) ==
    <<"proc", ToString(process_id), "task", ToString(thread_id), "schedstat">>

\* A live process has its main thread, whose id is the process id, and a
\* thread id belongs to one process.
ProcTables ==
    {t \in [Pids -> SUBSET Pids] :
        /\ \A p \in Pids : t[p] # {} => p \in t[p]
        /\ \A p, q \in Pids : p # q => t[p] \cap t[q] = {}}

\* the schedstat files procfs serves
ProcFiles ==
    {path_self}
        \cup {path_schedstat(t) : t \in UNION {threads[p] : p \in Pids}}
        \cup UNION {{path_task(p, t) : t \in threads[p]} : p \in Pids}

\* File::open: the outcomes the open of path can have
File_open(p) ==
    IF p \notin ProcFiles THEN {Err("NotFound")}
    ELSE IF p = path_self THEN {Ok(p)}
    ELSE {Ok(p), Err("PermissionDenied")}

(***************************************************************************)
(* What a read of a schedstat file can deliver                             *)
(***************************************************************************)
BufCap == 256

Digits(s) == [k \in 1..Len(s) |-> s[k] + ZERO]
Pad(n) == [k \in 1..n |-> LETTER]

\* b"297751702229 1936831953 8028005\n"
schedstat_text ==
    Digits(<<2,9,7,7,5,1,7,0,2,2,2,9>>) \o <<SP>>
        \o Digits(<<1,9,3,6,8,3,1,9,5,3>>) \o <<SP>>
        \o Digits(<<8,0,2,8,0,0,5>>) \o <<LF>>

Line123 == Digits(<<1>>) \o <<SP>> \o Digits(<<2>>) \o <<SP>> \o Digits(<<3>>) \o <<LF>>
Line000 == Digits(<<0>>) \o <<SP>> \o Digits(<<0>>) \o <<SP>> \o Digits(<<0>>) \o <<LF>>
LineWide ==
    Digits(<<1>>) \o <<SP, SP>> \o Digits(<<2>>) \o <<TAB>> \o Digits(<<3>>) \o <<LF>>

Contents ==
    { schedstat_text,
      schedstat_text \o Line123,
      Line000,
      Line123 \o <<LETTER, LF>>,
      SubSeq(Line123, 1, 5),
      <<LETTER>> \o Line123,
      LineWide,
      Digits(<<1,8,4,4,6,7,4,4,0,7,3,7,0,9,5,5,1,6,1,6>>) \o <<SP>> \o Digits(<<2>>)
          \o <<SP>> \o Digits(<<3>>) \o <<LF>>,
      <<>>,
      Line123 \o Pad(BufCap - Len(Line123)),
      Line123 \o Pad(BufCap + 1 - Len(Line123)) }

\* parsers::read_to_end(file, buf): the whole content, or an error when the
\* read fails or the content exceeds the buffer
read_to_end(content, cap) ==
    IF Len(content) > cap THEN Err("Other") ELSE Ok(Len(content))

\* the buffer after the read: the content, then what was there before
Fill(b, content) ==
    [k \in 1..Len(b) |-> IF k <= Len(content) THEN content[k] ELSE b[k]]

(***************************************************************************)
(* The accessors                                                           *)
(***************************************************************************)
Call(fn, args) == [fn |-> fn, args |-> args]

\* an open whose failure is replaced by the default record
Open_default(c, p) ==
    /\ pc \in {"idle", "done"}
    /\ call' = c
    /\ path' = p
    /\ served' = None
    /\ log' = <<"open">>
    /\ buf' = <<>>
    /\ nread' = 0
    /\ parsed' = None
    /\ \E r \in File_open(p) :
          IF r.ok
          THEN /\ handles' = {r.val}
               /\ pc' = "opened"
               /\ result' = None
          ELSE /\ handles' = {}
               /\ pc' = "done"
               /\ result' = Ok(SchedstatDefault)
    /\ UNCHANGED <<nom_crlf, threads, input, parts, output>>

\* the accessor's first step: build the path and open it; try! returns the
\* open's error at once
Open(c, p) ==
    /\ pc \in {"idle", "done"}
    /\ call' = c
    /\ path' = p
    /\ served' = None
    /\ log' = <<"open">>
    /\ buf' = <<>>
    /\ nread' = 0
    /\ parsed' = None
    /\ \E r \in File_open(p) :
          IF r.ok
          THEN /\ handles' = {r.val}
               /\ pc' = "opened"
               /\ result' = None
          ELSE /\ handles' = {}
               /\ pc' = "done"
               /\ result' = r
    /\ UNCHANGED <<nom_crlf, threads, input, parts, output>>

schedstat(pid) == Open(Call("schedstat", <<pid>>), path_schedstat(pid))

schedstat_self == Open(Call("schedstat_self", <<>>), path_self)

schedstat_task(process_id, thread_id) ==
    Open(Call("schedstat_task", <<process_id, thread_id>>),
         path_task(process_id, thread_id))

\* a read that stops at the end of the buffer and reports what it has
schedstat_file_read_truncating ==
    /\ pc = "opened"
    /\ log' = Append(log, "read")
    /\ \E content \in Contents, io_fails \in BOOLEAN :
          LET zeroed == [k \in 1..BufCap |-> 0]
              kept == IF Len(content) > BufCap THEN SubSeq(content, 1, BufCap) ELSE content
          IN  /\ served' = [content |-> content, fails |-> io_fails]
              /\ IF ~io_fails
                 THEN /\ buf' = Fill(zeroed, kept)
                      /\ nread' = Len(kept)
                      /\ pc' = "read"
                      /\ result' = None
                 ELSE /\ buf' = zeroed
                      /\ nread' = 0
                      /\ pc' = "returning"
                      /\ result' = Err("Other")
    /\ UNCHANGED <<nom_crlf, threads, call, path, handles, parsed, input, parts, output>>

\* schedstat_file, first half: let mut buf = [0; 256]; try!(read_to_end(..))
schedstat_file_read ==
    /\ pc = "opened"
    /\ log' = Append(log, "read")
    /\ \E content \in Contents, io_fails \in BOOLEAN :
          LET zeroed == [k \in 1..BufCap |-> 0]
              r == IF io_fails THEN Err("Other") ELSE read_to_end(content, BufCap)
          IN  /\ served' = [content |-> content, fails |-> io_fails]
              /\ IF r.ok
                 THEN /\ buf' = Fill(zeroed, content)
                      /\ nread' = r.val
                      /\ pc' = "read"
                      /\ result' = None
                 ELSE /\ buf' = IF io_fails THEN zeroed
                                ELSE Fill(zeroed, SubSeq(content, 1, BufCap))
                      /\ nread' = 0
                      /\ pc' = "returning"
                      /\ result' = r
    /\ UNCHANGED <<nom_crlf, threads, call, path, handles, parsed, input, parts, output>>

\* a parse whose failure is replaced by the default record
schedstat_file_parse_or_default ==
    /\ pc = "read"
    /\ log' = Append(log, "parse")
    /\ parsed' = parse_schedstat(SubSeq(buf, 1, nread))
    /\ result' = IF parsed'.tag = "Done" THEN Ok(parsed'.val) ELSE Ok(SchedstatDefault)
    /\ pc' = "returning"
    /\ UNCHANGED <<nom_crlf, threads, call, path, handles, served, buf, nread,
                   input, parts, output>>

\* schedstat_file, second half: map_result(parse_schedstat(slice))
schedstat_file_parse ==
    /\ pc = "read"
    /\ log' = Append(log, "parse")
    /\ parsed' = parse_schedstat(SubSeq(buf, 1, nread))
    /\ result' = map_result(parsed')
    /\ pc' = "returning"
    /\ UNCHANGED <<nom_crlf, threads, call, path, handles, served, buf, nread,
                   input, parts, output>>

\* a return that leaves the File open
Return_leak ==
    /\ pc = "returning"
    /\ buf' = <<>>
    /\ nread' = 0
    /\ pc' = "done"
    /\ UNCHANGED <<nom_crlf, threads, call, path, handles, served, parsed, result, log,
                   input, parts, output>>

\* schedstat_file has returned: the accessor returns its result, and the
\* temporary File and the buffer go out of scope
Return ==
    /\ pc = "returning"
    /\ handles' = {}
    /\ buf' = <<>>
    /\ nread' = 0
    /\ pc' = "done"
    /\ UNCHANGED <<nom_crlf, threads, call, path, served, parsed, result, log,
                   input, parts, output>>

Init ==
    /\ nom_crlf \in BOOLEAN
    /\ threads \in ProcTables
    /\ pc = "idle"
    /\ call = None
    /\ path = <<>>
    /\ handles = {}
    /\ served = None
    /\ buf = <<>>
    /\ nread = 0
    /\ parsed = None
    /\ result = None
    /\ log = <<>>
    /\ input = <<>>
    /\ parts = None
    /\ output = None

Next ==
    \/ \E pid \in Pids : schedstat(pid)
    \/ schedstat_self
    \/ \E process_id \in Pids, thread_id \in Pids : schedstat_task(process_id, thread_id)
    \/ schedstat_file_read
    \/ schedstat_file_parse
    \/ Return

Spec == Init /\ [][Next]_vars

(***************************************************************************)
(* parse_schedstat on its own, as test_parse_schedstat calls it: the byte  *)
(* slice is put together from three tokens, two separators, a terminator   *)
(* and what follows the line.                                              *)
(***************************************************************************)
\* the decimal text of a usize, as the kernel prints it
LimbDigits(l) ==
    <<l \div 10000, (l \div 1000) % 10, (l \div 100) % 10, (l \div 10) % 10, l % 10>>

StripZeros(d) ==
    LET lead == CHOOSE n \in 0..(Len(d) - 1) :
                    /\ \A k \in 1..n : d[k] = 0
                    /\ (n = Len(d) - 1 \/ d[n + 1] # 0)
    IN  Tail_from(d, lead + 1)

Dec(v) ==
    Digits(StripZeros(LimbDigits(v[1]) \o LimbDigits(v[2])
                          \o LimbDigits(v[3]) \o LimbDigits(v[4])))

Values ==
    { UsizeZero,
      <<0, 0, 80, 28005>>,
      <<0, 0, 19368, 31953>>,
      <<0, 29, 77517, 2229>>,
      UsizeMax }

TooBig ==
    { Digits(<<1,8,4,4,6,7,4,4,0,7,3,7,0,9,5,5,1,6,1,6>>),
      Digits(<<9,9,9,9,9,9,9,9,9,9,9,9,9,9,9,9,9,9,9,9,9,9,9>>) }

NotNumbers == { <<>>, <<LETTER>>, <<MINUS, ZERO + 1>> }

Tokens ==
    {[num |-> TRUE, val |-> v, text |-> Dec(v)] : v \in Values}
        \cup {[num |-> FALSE, val |-> UsizeZero, text |-> t] : t \in TooBig \cup NotNumbers}

Seps == { <<SP>>, <<>>, <<SP, SP>>, <<TAB>> }
Terms == { <<LF>>, <<>>, <<CR, LF>> }
Trails == { <<>>, Line123 }

Assemble(p) == p.t1.text \o p.s1 \o p.t2.text \o p.s2 \o p.t3.text \o p.term \o p.trail

InitParse ==
    /\ nom_crlf \in BOOLEAN
    /\ threads = [p \in Pids |-> {}]
    /\ pc = "idle"
    /\ call = None
    /\ path = <<>>
    /\ handles = {}
    /\ served = None
    /\ buf = <<>>
    /\ nread = 0
    /\ parsed = None
    /\ result = None
    /\ log = <<>>
    /\ parts \in [t1 : Tokens, s1 : Seps, t2 : Tokens, s2 : Seps, t3 : Tokens,
                  term : Terms, trail : Trails]
    /\ input = Assemble(parts)
    /\ output = None

\* let schedstat = parse_schedstat(schedstat_text)
test_parse_schedstat ==
    /\ output = None
    /\ output' = parse_schedstat(input)
    /\ UNCHANGED <<nom_crlf, threads, pc, call, path, handles, served, buf, nread,
                   parsed, result, log, input, parts>>

NextParse == test_parse_schedstat

SpecParse == InitParse /\ [][NextParse]_vars

(***************************************************************************)
(* Properties of parse_schedstat (checked under SpecParse)                 *)
(***************************************************************************)
Applied == output # None

AllNumbers == parts.t1.num /\ parts.t2.num /\ parts.t3.num

RecordOfParts == Schedstat(parts.t1.val, parts.t2.val, parts.t3.val)

\* "<a> <b> <c>\n" and nothing else
ExactLine ==
    /\ AllNumbers
    /\ parts.s1 = <<SP>> /\ parts.s2 = <<SP>>
    /\ parts.term = <<LF>> /\ parts.trail = <<>>

\* C1: three in-range decimal integers a, b, c separated by single spaces
\* and ended by a newline parse to the record with sum_exec_runtime = a,
\* run_delay = b, pcount = c; the test's text gives
\* {297751702229, 1936831953, 8028005}.
C1_RoundTrip ==
    /\ (Applied /\ ExactLine) => output = Done(<<>>, RecordOfParts)
    /\ (Applied /\ input = schedstat_text) =>
          /\ output.tag = "Done"
          /\ output.val.sum_exec_runtime = <<0, 29, 77517, 2229>>
          /\ output.val.run_delay = <<0, 0, 19368, 31953>>
          /\ output.val.pcount = <<0, 0, 80, 28005>>

C1_Witness == Applied /\ ExactLine /\ input = schedstat_text /\ output.tag = "Done"

C3_Strict ==
    LET noTerminator ==
            /\ AllNumbers
            /\ parts.s1 = <<SP>> /\ parts.s2 = <<SP>>
            /\ parts.term = <<>>
        badToken ==
            \E t \in {parts.t1, parts.t2, parts.t3} :
                t.text \in {<<LETTER>>, <<MINUS, ZERO + 1>>}
        emptyLine == input = <<>> \/ input[1] = LF
    IN  (Applied /\ (noTerminator \/ badToken \/ emptyLine)) =>
            /\ output.tag = "Error"
            /\ ~map_result(output).ok

C3_Witness ==
    /\ Applied /\ AllNumbers
    /\ parts.s1 = <<SP>> /\ parts.s2 = <<SP>>
    /\ parts.term = <<>> /\ parts.trail = <<>>
    /\ output.tag = "Error"

\* C4: when one of the tokens denotes a value above the usize maximum the
\* parse fails: no record comes back, neither wrapped nor saturated.
C4_Overflow ==
    (Applied /\ \E t \in {parts.t1, parts.t2, parts.t3} : t.text \in TooBig) =>
        /\ output.tag = "Error"
        /\ ~map_result(output).ok

C4_Witness ==
    /\ Applied
    /\ parts.t1.num /\ parts.t2.num /\ parts.t3.text \in TooBig
    /\ parts.s1 = <<SP>> /\ parts.s2 = <<SP>> /\ parts.term = <<LF>>
    /\ output.tag = "Error"

(***************************************************************************)
(* Properties of the accessors (checked under Spec)                        *)
(***************************************************************************)
IsPrefix(a, b) == Len(a) <= Len(b) /\ SubSeq(b, 1, Len(a)) = a

Steps == <<"open", "read", "parse">>

One == <<0, 0, 0, 1>>
Two == <<0, 0, 0, 2>>
Three == <<0, 0, 0, 3>>

\* the well-formed first lines procfs serves here, and the record of each
Known ==
    { [line |-> schedstat_text,
       rec |-> Schedstat(<<0, 29, 77517, 2229>>, <<0, 0, 19368, 31953>>, <<0, 0, 80, 28005>>)],
      [line |-> Line123, rec |-> Schedstat(One, Two, Three)],
      [line |-> LineWide, rec |-> Schedstat(One, Two, Three)],
      [line |-> Line000, rec |-> Schedstat(UsizeZero, UsizeZero, UsizeZero)] }

\* C5: when the bytes read hold more content after a well-formed first
\* line, the accessor's result is the record of that first line.
C5_TrailingIgnored ==
    \A k \in Known :
        (/\ log = Steps
         /\ pc \in {"returning", "done"}
         /\ IsPrefix(k.line, served.content)
         /\ Len(served.content) > Len(k.line))
        => result = Ok(k.rec)

C5_Witness ==
    /\ pc = "done" /\ log = Steps
    /\ served.content = schedstat_text \o Line123
    /\ result.ok

\* the resource of the call in flight does not exist
Missing ==
    \/ call.fn = "schedstat"
           /\ call.args[1] \notin UNION {threads[p] : p \in Pids}
    \/ call.fn = "schedstat_task"
           /\ call.args[2] \notin threads[call.args[1]]

\* C6: schedstat and schedstat_task of a pid/tid whose resource does not
\* exist return the open's I/O failure; nothing is read or parsed, and the
\* result is neither a format failure nor a default record.
C6_MissingResource ==
    (pc # "idle" /\ Missing) =>
        /\ pc = "done"
        /\ result = Err("NotFound")
        /\ log = <<"open">>
        /\ parsed = None
        /\ served = None

C6_Witness ==
    /\ pc = "done" /\ call.fn = "schedstat_task" /\ Missing
    /\ threads[call.args[1]] # {}
    /\ ~result.ok

\* C7: the buffer holds 256 bytes; content longer than that makes the call
\* fail with an I/O failure without anything being parsed, and content that
\* fits is returned by the reader byte for byte.
C7_BoundedRead ==
    (Len(log) >= 2) =>
        /\ Len(served.content) > 256 =>
              /\ result = Err("Other")
              /\ log = <<"open", "read">>
              /\ parsed = None
        /\ (Len(served.content) <= 256 /\ ~served.fails /\ pc \in {"read", "returning"}) =>
              /\ Len(buf) = 256
              /\ SubSeq(buf, 1, nread) = served.content

C7_Witness ==
    /\ pc = "done" /\ log = <<"open", "read">>
    /\ Len(served.content) > 256 /\ ~served.fails
    /\ IsPrefix(Line123, served.content)
    /\ result = Err("Other")

\* C8: a call runs open, read, parse at most once each and in that order,
\* and ends either with the complete record of the line that was read or
\* with the failure of the first step that failed, no later step having run.
C8_SingleShot ==
    /\ IsPrefix(log, Steps)
    /\ pc = "done" =>
          /\ result # None
          /\ \/ /\ result.ok
                /\ log = Steps
                /\ \E k \in Known :
                      IsPrefix(k.line, served.content) /\ result.val = k.rec
             \/ /\ ~result.ok
                /\ \/ log = <<"open">>
                          /\ result.kind \in {"NotFound", "PermissionDenied"}
                   \/ log = <<"open", "read">>
                          /\ result.kind = "Other" /\ parsed = None
                   \/ log = Steps
                          /\ result.kind = "InvalidInput" /\ parsed = Error

C8_Witness ==
    /\ pc = "done" /\ log = Steps
    /\ ~result.ok /\ result.kind = "InvalidInput"
    /\ served.content = <<LETTER>> \o Line123

\* C9: the path opened is fixed by the call alone: /proc/P/schedstat for
\* schedstat(P), /proc/self/schedstat for schedstat_self(),
\* /proc/P/task/T/schedstat for schedstat_task(P, T); a File that is open
\* is a File on that path.
C9_Paths ==
    (pc # "idle") =>
        /\ call.fn = "schedstat" =>
              path = <<"proc", ToString(call.args[1]), "schedstat">>
        /\ call.fn = "schedstat_self" =>
              path = <<"proc", "self", "schedstat">>
        /\ call.fn = "schedstat_task" =>
              path = <<"proc", ToString(call.args[1]), "task",
                       ToString(call.args[2]), "schedstat">>
        /\ handles \subseteq {path}

C9_Witness ==
    /\ pc = "opened"
    /\ call = Call("schedstat_task", <<1, 2>>)
    /\ handles = {<<"proc", "1", "task", "2", "schedstat">>}

\* C10: once a call has completed, with a record, a read failure or a
\* parse failure, the File it opened is closed; a failed open leaves no
\* File; at no time is more than one File open.
C10_HandleReleased ==
    /\ pc \in {"idle", "done"} => handles = {}
    /\ (pc = "done" /\ ~result.ok /\ log = <<"open">>) => handles = {}
    /\ Cardinality(handles) <= 1

C10_Witness ==
    /\ pc = "done" /\ log = <<"open", "read">>
    /\ ~result.ok
    /\ handles = {}

====
